---------------------------- MODULE Spec2Model ----------------------------
(***************************************************************************)
(* WebHookX logging: the SQLite-backed bounded log store                   *)
(* (logging_config.SQLiteHandler) and the routing that setup_logging       *)
(* installs on the root logger.                                            *)
(*                                                                         *)
(* The database file is modelled by its committed content (rows, seq,      *)
(* schema) and by SQLite's single write lock with the working copy of the  *)
(* transaction that holds it.  Python's sqlite3 module opens a transaction *)
(* implicitly before the INSERT of emit, so the INSERT, the COUNT and the  *)
(* DELETE of one emit call belong to one transaction that the first        *)
(* commit() makes durable and that close() without commit rolls back.      *)
(*                                                                         *)
(* Every caller is an execution context with a connection of its own (a    *)
(* process sharing the database file, or a direct call of emit); the       *)
(* steps of different callers interleave freely.                           *)
(***************************************************************************)
EXTENDS Integers, Sequences, FiniteSets, TLC

(***************************************************************************)
(* Bounds of the model.                                                    *)
(***************************************************************************)
NumCallers == 2      \* concurrent callers
MaxCalls   == 3      \* records emitted in one behaviour
MaxCap     == 2      \* largest max_entries
MaxTime    == 1      \* clock readings 0..MaxTime (clocks are not synchronised)
MaxFaults  == 2      \* storage failures injected in one behaviour
MaxSetups  == 2      \* setup_logging / constructor calls in one behaviour

(***************************************************************************)
(* Program constants.                                                      *)
(***************************************************************************)
DEBUG   == 10        \* logging.DEBUG
INFO    == 20        \* logging.INFO
WARNING == 30        \* logging.WARNING, the root logger's level before setup

\* MAX_LOG_ENTRIES = 10000 in the source; scaled to the largest modelled cap.
MAX_LOG_ENTRIES == MaxCap

Callers   == 1 .. NumCallers
Levels    == {DEBUG, INFO, WARNING}
Times     == 0 .. MaxTime
\* max_entries as __init__ accepts it: any integer, positive or not.
CapValues == -1 .. MaxCap

Min(a, b) == IF a < b THEN a ELSE b
Max(a, b) == IF a > b THEN a ELSE b

VARIABLES
    \* ---- the database file (committed content)
    rows,         \* the logs table: set of [id, timestamp, level, message]
    seq,          \* sqlite_sequence.seq of logs (AUTOINCREMENT high-water mark)
    schema,       \* schema objects that exist: subset of {"logs", "idx_logs_id"}
    \* ---- SQLite's write lock and the open write transaction
    lock,         \* 0, or the caller whose connection holds the write lock
    txRows,       \* the lock holder's view of the logs table
    txSeq,        \* the lock holder's view of sqlite_sequence.seq
    \* ---- the SQLiteHandler instance
    handler,      \* TRUE iff a SQLiteHandler was constructed successfully
    max_entries,  \* self.max_entries
    \* ---- the root logger
    handlers,     \* logger.handlers: sequence of [kind, level]
    loggerLevel,  \* logger.level
    debug_mode,   \* flag of the last setup_logging call: "unset", "True", "False"
    setupRaised,  \* the last setup_logging / constructor call raised
    \* ---- each caller
    pc,           \* position of the caller
    rec,          \* the record being emitted: [level, message]
    todo,         \* handlers of the logger this record has still to visit
    count,        \* emit's local variable count
    rowid,        \* id the INSERT of this call assigned (0: none)
    got,          \* deliveries of this record: [console |-> n, store |-> n]
    raised,       \* an exception escaped to the caller of this call
    printed,      \* fallback notices this call printed
    stored,       \* this call committed its record
    \* ---- history
    ncalls,       \* records emitted so far
    nsetups,      \* setup_logging / constructor calls so far
    nverbose,     \* records emitted while debug_mode is "True"
    nfaults,      \* storage failures so far
    issued,       \* highest id a committed INSERT ever assigned
    appended      \* messages of the committed records, in commit order

dbVars     == <<rows, seq, schema>>
txVars     == <<lock, txRows, txSeq>>
hVars      == <<handler, max_entries>>
logVars    == <<handlers, loggerLevel, debug_mode, setupRaised>>
callVars   == <<pc, rec, todo, count, rowid, got, raised, printed, stored>>
histVars   == <<ncalls, nsetups, nverbose, nfaults, issued, appended>>
vars == <<dbVars, txVars, hVars, logVars, callVars, histVars>>

NoRec  == [level |-> 0, message |-> 0]
NoGot  == [console |-> 0, store |-> 0]

Console(lv) == [kind |-> "console", level |-> lv]
Sqlite(lv)  == [kind |-> "sqlite", level |-> lv]

AllIdle == \A p \in Callers : pc[p] = "idle"

(***************************************************************************)
(* SQL of the handler, as functions of the table content.                  *)
(***************************************************************************)
Ids(rs) == {r.id : r \in rs}

MaxId(rs) == IF rs = {} THEN 0 ELSE CHOOSE i \in Ids(rs) : \A j \in Ids(rs) : j <= i

\* A rowid picked without AUTOINCREMENT: one more than the largest id present.
NextIdNoAutoincrement(rs, s) == MaxId(rs) + 1

\* id INTEGER PRIMARY KEY AUTOINCREMENT: one more than the largest id the
\* table ever held, which sqlite_sequence records.
NextId(rs, s) == Max(MaxId(rs), s) + 1

\* SELECT COUNT(*) FROM logs
CountRows(rs) == Cardinality(rs)

\* SELECT id FROM logs ORDER BY timestamp ASC, id ASC LIMIT n
OldestByTimestamp(rs, n) ==
    {r \in rs : Cardinality({q \in rs : \/ q.timestamp < r.timestamp
                                        \/ /\ q.timestamp = r.timestamp
                                           /\ q.id < r.id}) < n}

\* SELECT id FROM logs ORDER BY id DESC LIMIT n
OldestDescending(rs, n) ==
    {r \in rs : Cardinality({q \in rs : q.id > r.id}) < n}

\* SELECT id FROM logs ORDER BY id ASC LIMIT n (n > 0)
Oldest(rs, n) == {r \in rs : Cardinality({q \in rs : q.id < r.id}) < n}

\* excess = count - 1 - self.max_entries
ExcessOffByOne(c, m) == c - 1 - m

\* excess = count - self.max_entries
Excess(c, m) == c - m

\* DELETE FROM logs WHERE id IN (SELECT id FROM logs ORDER BY id ASC LIMIT excess)
DeleteOldest(rs, n) == rs \ Oldest(rs, n)

\* A close() that commits what is pending.
CloseCommits(committed, pending) == pending

\* conn.close() with no commit before it: the rows the transaction wrote or
\* deleted are discarded, the table is as committed.
RollbackRows(committed, pending) == committed

\* A sequence counter outside the transaction: a rolled back INSERT keeps
\* the id it drew.
SeqNotTransactional(committed, pending) == pending

\* sqlite_sequence is a table like any other: the counter a rolled back
\* INSERT advanced is as committed again.
RollbackSeq(committed, pending) == committed

\* A connection that is never closed keeps the write lock l it holds.
LockLeaked(l) == l

\* conn.close() ends the connection's transaction: the write lock l it held
\* is free again.
LockReleased(l) == 0

\* A connection that writes without regard for the write lock of another.
WriteLockIgnored(l) == TRUE

\* SQLite lets one connection write at a time: a statement that writes
\* proceeds when no other connection holds the write lock l.
WriteLockFree(l) == l = 0

\* CREATE TABLE IF NOT EXISTS logs; CREATE INDEX IF NOT EXISTS idx_logs_id.
\* fail names the statement that fails: "none", "table" or "index".
create_table(s, fail) ==
    CASE fail = "table" -> s
      [] fail = "index" -> s \cup {"logs"}
      [] OTHER          -> s \cup {"logs", "idx_logs_id"}

\* DROP TABLE IF EXISTS logs; CREATE TABLE logs (...): the table is emptied,
\* its index and its sqlite_sequence row go with it.
CreateTableRecreate(s, rs, sq) ==
    [schema |-> {"logs"}, rows |-> {}, seq |-> 0, error |-> FALSE]

\* CREATE TABLE logs (...), without IF NOT EXISTS: "table logs already
\* exists" on the second run.
CreateTableNoGuard(s, rs, sq) ==
    [schema |-> s \cup {"logs"},
     rows   |-> IF "logs" \in s THEN rs ELSE {},
     seq    |-> IF "logs" \in s THEN sq ELSE 0,
     error  |-> "logs" \in s]

\* CREATE TABLE IF NOT EXISTS logs (...): nothing happens when logs exists,
\* an empty table is created otherwise.  The result is the schema, the table
\* content, the sequence counter and whether the statement raised.
CreateTable(s, rs, sq) ==
    [schema |-> s \cup {"logs"},
     rows   |-> IF "logs" \in s THEN rs ELSE {},
     seq    |-> IF "logs" \in s THEN sq ELSE 0,
     error  |-> FALSE]

\* CREATE INDEX IF NOT EXISTS idx_logs_id ON logs (id DESC): "no such table"
\* without logs, nothing when the index exists.
CreateIndex(s) ==
    [schema |-> IF "logs" \in s THEN s \cup {"idx_logs_id"} ELSE s,
     error  |-> "logs" \notin s]

TypeOK ==
    /\ \A r \in rows : r.id \in 1 .. MaxCalls
    /\ seq \in 0 .. MaxCalls
    /\ schema \subseteq {"logs", "idx_logs_id"}
    /\ lock \in {0} \cup Callers
    /\ handler \in BOOLEAN
    /\ max_entries \in CapValues
    /\ debug_mode \in {"unset", "True", "False"}
    /\ pc \in [Callers -> {"idle", "route", "connect", "insert", "count",
                           "evict", "commit", "close", "done",
                           "ct_table", "ct_index", "ct_commit"}]
    /\ ncalls \in 0 .. MaxCalls
    /\ nfaults \in 0 .. MaxFaults
    /\ nsetups \in 0 .. MaxSetups

(***************************************************************************)
(* Initial states.                                                         *)
(***************************************************************************)
\* Nothing constructed yet: module import, before setup_logging.
InitCommon ==
    /\ rows = {} /\ seq = 0
    /\ lock = 0 /\ txRows = {} /\ txSeq = 0
    /\ handlers = <<>> /\ loggerLevel = WARNING
    /\ debug_mode = "unset" /\ setupRaised = FALSE
    /\ pc = [p \in Callers |-> "idle"]
    /\ rec = [p \in Callers |-> NoRec]
    /\ todo = [p \in Callers |-> <<>>]
    /\ count = [p \in Callers |-> 0]
    /\ rowid = [p \in Callers |-> 0]
    /\ got = [p \in Callers |-> NoGot]
    /\ raised = [p \in Callers |-> FALSE]
    /\ printed = [p \in Callers |-> 0]
    /\ stored = [p \in Callers |-> FALSE]
    /\ ncalls = 0 /\ nsetups = 0 /\ nverbose = 0 /\ nfaults = 0
    /\ issued = 0 /\ appended = <<>>

Init ==
    /\ InitCommon
    /\ schema = {}
    /\ handler = FALSE
    /\ max_entries = MAX_LOG_ENTRIES

\* A SQLiteHandler(db_path, max_entries = m) constructed on a fresh file.
InitStore ==
    /\ InitCommon
    /\ schema = create_table({}, "none")
    /\ handler = TRUE
    /\ max_entries \in CapValues

(***************************************************************************)
(* A call: logger.log(level, msg) through the root logger, or              *)
(* handler.emit(record) directly.                                          *)
(***************************************************************************)
\* Where a caller goes once a handler is done with the record.
After(t) == IF t = <<>> THEN "done" ELSE "route"

StartCall(p, lv) ==
    /\ pc[p] = "idle"
    /\ ncalls < MaxCalls
    /\ ncalls' = ncalls + 1
    /\ rec' = [rec EXCEPT ![p] = [level |-> lv, message |-> ncalls + 1]]

\* handler.emit(record) on the constructed handler, called directly.
EmitCall(p, lv) ==
    /\ handler
    /\ StartCall(p, lv)
    /\ got' = [got EXCEPT ![p] = [console |-> 0, store |-> 1]]
    /\ todo' = [todo EXCEPT ![p] = <<>>]
    /\ pc' = [pc EXCEPT ![p] = "connect"]
    /\ UNCHANGED <<dbVars, txVars, hVars, logVars, count, rowid, raised,
                   printed, stored, nsetups, nverbose, nfaults, issued,
                   appended>>

\* The call is over (it returned, or its exception reached the caller): the
\* caller's locals are gone.
Return(p) ==
    /\ pc[p] = "done"
    /\ pc' = [pc EXCEPT ![p] = "idle"]
    /\ rec' = [rec EXCEPT ![p] = NoRec]
    /\ todo' = [todo EXCEPT ![p] = <<>>]
    /\ count' = [count EXCEPT ![p] = 0]
    /\ rowid' = [rowid EXCEPT ![p] = 0]
    /\ got' = [got EXCEPT ![p] = NoGot]
    /\ raised' = [raised EXCEPT ![p] = FALSE]
    /\ printed' = [printed EXCEPT ![p] = 0]
    /\ stored' = [stored EXCEPT ![p] = FALSE]
    /\ UNCHANGED <<dbVars, txVars, hVars, logVars, histVars>>

(***************************************************************************)
(* SQLiteHandler.emit, one action per statement.                           *)
(***************************************************************************)
\* except Exception: pass.  n notices were printed before.
NoNotice(n) == n

\* print(f"Failed to log to SQLite database: {e}"): one more notice on the
\* process's output.  n notices were printed before.
Notice(n) == n + 1

\* except Exception: print(...), then the finally clause.
Fail(p) ==
    /\ nfaults < MaxFaults
    /\ nfaults' = nfaults + 1
    /\ printed' = [printed EXCEPT ![p] = Notice(@)]
    /\ pc' = [pc EXCEPT ![p] = "close"]

\* conn.commit() of the lock holder p, whose transaction leaves the table as rs.
Commit(p, rs) ==
    /\ rows' = rs
    /\ seq' = txSeq
    /\ lock' = 0 /\ txRows' = {} /\ txSeq' = 0
    /\ stored' = [stored EXCEPT ![p] = TRUE]
    /\ issued' = Max(issued, rowid[p])
    /\ appended' = Append(appended, rec[p].message)

\* conn = sqlite3.connect(self.db_path).  When it fails conn stays unbound:
\* the except clause prints, and conn.close() in the finally clause raises
\* UnboundLocalError, which leaves emit and the logging call.
emit_connect(p, ok) ==
    /\ pc[p] = "connect"
    /\ IF ok
       THEN /\ pc' = [pc EXCEPT ![p] = "insert"]
            /\ UNCHANGED <<todo, raised, printed, nfaults>>
       ELSE /\ nfaults < MaxFaults
            /\ nfaults' = nfaults + 1
            /\ printed' = [printed EXCEPT ![p] = Notice(@)]
            /\ raised' = [raised EXCEPT ![p] = TRUE]
            /\ todo' = [todo EXCEPT ![p] = <<>>]
            /\ pc' = [pc EXCEPT ![p] = "done"]
    /\ UNCHANGED <<dbVars, txVars, hVars, logVars, rec, count, rowid, got,
                   stored, ncalls, nsetups, nverbose, issued, appended>>

\* log_entry = {...}; cursor.execute("INSERT INTO logs ...").  The INSERT
\* begins the transaction and takes the write lock; while another connection
\* holds it the statement waits, and fails ("database is locked") when the
\* busy timeout runs out.
emit_insert(p, ts, ok) ==
    /\ pc[p] = "insert"
    /\ IF ok
       THEN /\ WriteLockFree(lock)
            /\ "logs" \in schema
            /\ LET id == NextId(rows, seq) IN
               /\ lock' = p
               /\ txRows' = rows \cup {[id |-> id, timestamp |-> ts,
                                        level |-> rec[p].level,
                                        message |-> rec[p].message]}
               /\ txSeq' = id
               /\ rowid' = [rowid EXCEPT ![p] = id]
            /\ pc' = [pc EXCEPT ![p] = "count"]
            /\ UNCHANGED <<printed, nfaults>>
       ELSE /\ ts = 0
            /\ Fail(p)
            /\ UNCHANGED <<txVars, rowid>>
    /\ UNCHANGED <<dbVars, hVars, logVars, rec, todo, count, got, raised,
                   stored, ncalls, nsetups, nverbose, issued, appended>>

\* cursor.execute("SELECT COUNT(*) FROM logs"); count = cursor.fetchone()[0]
emit_count(p, ok) ==
    /\ pc[p] = "count"
    /\ IF ok
       THEN /\ count' = [count EXCEPT ![p] = CountRows(txRows)]
            /\ pc' = [pc EXCEPT ![p] = "evict"]
            /\ UNCHANGED <<printed, nfaults>>
       ELSE /\ Fail(p)
            /\ UNCHANGED count
    /\ UNCHANGED <<dbVars, txVars, hVars, logVars, rec, todo, rowid, got,
                   raised, stored, ncalls, nsetups, nverbose, issued, appended>>

\* if count > self.max_entries: excess = ...; DELETE ...; conn.commit()
emit_evict(p, ok) ==
    /\ pc[p] = "evict"
    /\ IF count[p] > max_entries
       THEN IF ok
            THEN /\ Commit(p, DeleteOldest(txRows, Excess(count[p], max_entries)))
                 /\ pc' = [pc EXCEPT ![p] = "commit"]
                 /\ UNCHANGED <<printed, nfaults>>
            ELSE /\ Fail(p)
                 /\ UNCHANGED <<dbVars, txVars, stored, issued, appended>>
       ELSE /\ ok
            /\ pc' = [pc EXCEPT ![p] = "commit"]
            /\ UNCHANGED <<dbVars, txVars, stored, issued, appended, printed,
                           nfaults>>
    /\ UNCHANGED <<schema, hVars, logVars, rec, todo, count, rowid, got,
                   raised, ncalls, nsetups, nverbose>>

\* conn.commit() at the end of the try block: commits the transaction if the
\* eviction branch has not done so already.
emit_commit(p, ok) ==
    /\ pc[p] = "commit"
    /\ IF lock = p
       THEN IF ok
            THEN /\ Commit(p, txRows)
                 /\ pc' = [pc EXCEPT ![p] = "close"]
                 /\ UNCHANGED <<printed, nfaults>>
            ELSE /\ Fail(p)
                 /\ UNCHANGED <<dbVars, txVars, stored, issued, appended>>
       ELSE /\ ok
            /\ pc' = [pc EXCEPT ![p] = "close"]
            /\ UNCHANGED <<dbVars, txVars, stored, issued, appended, printed,
                           nfaults>>
    /\ UNCHANGED <<schema, hVars, logVars, rec, todo, count, rowid, got,
                   raised, ncalls, nsetups, nverbose>>

\* finally: conn.close().  Closing a connection rolls back what it has not
\* committed and releases its lock.
emit_close(p) ==
    /\ pc[p] = "close"
    /\ IF lock = p
       THEN /\ rows' = RollbackRows(rows, txRows)
            /\ seq' = RollbackSeq(seq, txSeq)
            /\ lock' = LockReleased(lock) /\ txRows' = {} /\ txSeq' = 0
       ELSE UNCHANGED <<rows, seq, txVars>>
    /\ pc' = [pc EXCEPT ![p] = After(todo[p])]
    /\ UNCHANGED <<schema, hVars, logVars, rec, todo, count, rowid, got,
                   raised, printed, stored, histVars>>

\* One step of emit by caller p, whose clock reads a value of T.
emit(p, T) ==
    \/ \E ok \in BOOLEAN : emit_connect(p, ok)
    \/ \E ts \in T, ok \in BOOLEAN : emit_insert(p, ts, ok)
    \/ \E ok \in BOOLEAN : emit_count(p, ok)
    \/ \E ok \in BOOLEAN : emit_evict(p, ok)
    \/ \E ok \in BOOLEAN : emit_commit(p, ok)
    \/ emit_close(p)

(***************************************************************************)
(* The root logger: logger.log(level, msg) and the handlers that           *)
(* setup_logging attached.                                                 *)
(***************************************************************************)
\* Logger.log: the record is dropped below the logger's level, otherwise it
\* visits the handlers in the order they were attached.
LogCall(p, lv) ==
    /\ StartCall(p, lv)
    /\ got' = [got EXCEPT ![p] = NoGot]
    /\ IF lv >= loggerLevel /\ handlers # <<>>
       THEN /\ todo' = [todo EXCEPT ![p] = handlers]
            /\ pc' = [pc EXCEPT ![p] = "route"]
       ELSE /\ todo' = [todo EXCEPT ![p] = <<>>]
            /\ pc' = [pc EXCEPT ![p] = "done"]
    /\ nverbose' = IF debug_mode = "True" THEN nverbose + 1 ELSE nverbose
    /\ UNCHANGED <<dbVars, txVars, hVars, logVars, count, rowid, raised,
                   printed, stored, nsetups, nfaults, issued, appended>>

\* The next handler of the list: it takes the record if the record's level
\* reaches the handler's level.  The console handler writes the record; the
\* SQLite handler runs emit.
Route(p) ==
    /\ pc[p] = "route"
    /\ LET h == Head(todo[p])
           rest == Tail(todo[p])
       IN  /\ todo' = [todo EXCEPT ![p] = rest]
           /\ IF rec[p].level < h.level
              THEN /\ pc' = [pc EXCEPT ![p] = After(rest)]
                   /\ UNCHANGED got
              ELSE IF h.kind = "console"
              THEN /\ got' = [got EXCEPT ![p].console = @ + 1]
                   /\ pc' = [pc EXCEPT ![p] = After(rest)]
              ELSE /\ got' = [got EXCEPT ![p].store = @ + 1]
                   /\ pc' = [pc EXCEPT ![p] = "connect"]
    /\ UNCHANGED <<dbVars, txVars, hVars, logVars, rec, count, rowid, raised,
                   printed, stored, histVars>>

(***************************************************************************)
(* SQLiteHandler.__init__ and setup_logging.                               *)
(***************************************************************************)
\* SQLiteHandler(db_path, max_entries = m): stores m as given and runs
\* create_table, whose exception leaves the constructor.
Construct(m, fail) ==
    /\ nsetups < MaxSetups
    /\ nsetups' = nsetups + 1
    /\ IF fail = "none"
       THEN UNCHANGED nfaults
       ELSE nfaults < MaxFaults /\ nfaults' = nfaults + 1
    /\ max_entries' = m
    /\ schema' = create_table(schema, fail)
    /\ handler' = (fail = "none")
    /\ setupRaised' = (fail # "none")

\* A process start that constructs the handler itself.
SQLiteHandler(m, fail) ==
    /\ AllIdle
    /\ Construct(m, fail)
    /\ UNCHANGED <<rows, seq, txVars, handlers, loggerLevel, debug_mode,
                   callVars, ncalls, nverbose, issued, appended>>

\* while logger.handlers: logger.removeHandler(logger.handlers[0]), left out.
KeepHandlers(hs) == hs

\* while logger.handlers: logger.removeHandler(logger.handlers[0])
RemoveHandlers(hs) == <<>>

\* "Option B" of the source's comments: the SQLite handler is attached in
\* either mode.
AttachOptionB(flag, built) ==
    IF flag = "True"
    THEN <<Console(DEBUG)>> \o (IF built THEN <<Sqlite(DEBUG)>> ELSE <<>>)
    ELSE <<Console(INFO), Sqlite(INFO)>>

\* The SQLite handler attached with the level of the quiet console.
AttachStoreAtInfo(flag, built) ==
    IF flag = "True"
    THEN <<Console(DEBUG)>> \o (IF built THEN <<Sqlite(INFO)>> ELSE <<>>)
    ELSE <<Console(INFO)>>

\* Both handlers added once the SQLite handler is constructed: none is
\* added when its constructor raises.
AttachAfterStore(flag, built) ==
    IF flag = "True"
    THEN (IF built THEN <<Console(DEBUG), Sqlite(DEBUG)>> ELSE <<>>)
    ELSE <<Console(INFO)>>

\* The SQLite handler added before the console handler.
AttachStoreFirst(flag, built) ==
    IF flag = "True"
    THEN (IF built THEN <<Sqlite(DEBUG)>> ELSE <<>>) \o <<Console(DEBUG)>>
    ELSE <<Console(INFO)>>

\* The handlers setup_logging adds, in order: the console handler at DEBUG
\* or INFO, then, when debug_mode is set, the SQLite handler at DEBUG (built
\* tells whether its constructor returned).
Attach(flag, built) ==
    IF flag = "True"
    THEN <<Console(DEBUG)>> \o (IF built THEN <<Sqlite(DEBUG)>> ELSE <<>>)
    ELSE <<Console(INFO)>>

\* logger.setLevel(logging.DEBUG) or logger.setLevel(logging.INFO)
LoggerLevel(flag) == IF flag = "True" THEN DEBUG ELSE INFO

\* setup_logging(debug_mode)
setup_logging(flag, fail) ==
    /\ AllIdle
    /\ debug_mode' = flag
    /\ loggerLevel' = LoggerLevel(flag)
    /\ handlers' = RemoveHandlers(handlers) \o Attach(flag, fail = "none")
    /\ IF flag = "True"
       THEN Construct(MAX_LOG_ENTRIES, fail)
       ELSE /\ fail = "none"
            /\ nsetups < MaxSetups
            /\ nsetups' = nsetups + 1
            /\ handler' = FALSE
            /\ setupRaised' = FALSE
            /\ UNCHANGED <<schema, max_entries, nfaults>>
    /\ UNCHANGED <<rows, seq, txVars, callVars, ncalls, nverbose, issued,
                   appended>>

(***************************************************************************)
(* SQLiteHandler.__init__ one statement at a time, so that the constructors *)
(* of two processes on the same file can interleave.  Each DDL statement    *)
(* is its own transaction (sqlite3 opens none for DDL).                     *)
(***************************************************************************)
\* self.db_path = db_path; self.max_entries = max_entries; create_table()
SQLiteHandler_init(p) ==
    /\ pc[p] = "idle"
    /\ nsetups < MaxSetups
    /\ nsetups' = nsetups + 1
    /\ max_entries' = MAX_LOG_ENTRIES
    /\ pc' = [pc EXCEPT ![p] = "ct_table"]
    /\ UNCHANGED <<dbVars, txVars, handler, logVars, rec, todo, count, rowid,
                   got, raised, printed, stored, ncalls, nverbose, nfaults,
                   issued, appended>>

\* The exception of a statement leaves create_table (its finally clause
\* closes the connection) and the constructor.
create_table_raise(p) ==
    /\ raised' = [raised EXCEPT ![p] = TRUE]
    /\ pc' = [pc EXCEPT ![p] = "done"]

\* conn = sqlite3.connect(...); cursor.execute("CREATE TABLE IF NOT EXISTS ...")
create_table_table(p, ok) ==
    /\ pc[p] = "ct_table"
    /\ IF ok
       THEN LET r == CreateTable(schema, rows, seq) IN
            /\ schema' = r.schema /\ rows' = r.rows /\ seq' = r.seq
            /\ IF r.error
               THEN create_table_raise(p)
               ELSE /\ pc' = [pc EXCEPT ![p] = "ct_index"]
                    /\ UNCHANGED raised
            /\ UNCHANGED nfaults
       ELSE /\ nfaults < MaxFaults
            /\ nfaults' = nfaults + 1
            /\ create_table_raise(p)
            /\ UNCHANGED dbVars
    /\ UNCHANGED <<txVars, hVars, logVars, rec, todo, count, rowid, got,
                   printed, stored, ncalls, nsetups, nverbose, issued,
                   appended>>

\* cursor.execute("CREATE INDEX IF NOT EXISTS idx_logs_id ...")
create_table_index(p, ok) ==
    /\ pc[p] = "ct_index"
    /\ IF ok
       THEN LET r == CreateIndex(schema) IN
            /\ schema' = r.schema
            /\ IF r.error
               THEN create_table_raise(p)
               ELSE /\ pc' = [pc EXCEPT ![p] = "ct_commit"]
                    /\ UNCHANGED raised
            /\ UNCHANGED nfaults
       ELSE /\ nfaults < MaxFaults
            /\ nfaults' = nfaults + 1
            /\ create_table_raise(p)
            /\ UNCHANGED schema
    /\ UNCHANGED <<rows, seq, txVars, hVars, logVars, rec, todo, count, rowid,
                   got, printed, stored, ncalls, nsetups, nverbose, issued,
                   appended>>

\* conn.commit(); finally: conn.close(); the constructor returns the handler.
create_table_commit(p) ==
    /\ pc[p] = "ct_commit"
    /\ handler' = TRUE
    /\ pc' = [pc EXCEPT ![p] = "done"]
    /\ UNCHANGED <<dbVars, txVars, max_entries, logVars, rec, todo, count,
                   rowid, got, raised, printed, stored, histVars>>

\* One step of the constructor run by process p.
Initialize(p) ==
    \/ SQLiteHandler_init(p)
    \/ \E ok \in BOOLEAN : create_table_table(p, ok)
    \/ \E ok \in BOOLEAN : create_table_index(p, ok)
    \/ create_table_commit(p)

Flags == {"True", "False"}
FailAt == {"none", "table", "index"}

\* The caller of the single-threaded specifications.
Main == CHOOSE p \in Callers : \A q \in Callers : p <= q

(***************************************************************************)
(* The program as deployed: setup_logging, then logging calls through the  *)
(* root logger.                                                            *)
(***************************************************************************)
Next ==
    \/ \E flag \in Flags, fail \in FailAt : setup_logging(flag, fail)
    \/ \E lv \in Levels : LogCall(Main, lv)
    \/ Route(Main)
    \/ emit(Main, {0})
    \/ Return(Main)

Spec == Init /\ [][Next]_vars

(***************************************************************************)
(* The store on its own: a handler with a fixed max_entries on a database  *)
(* that starts empty, and concurrent callers of emit.                      *)
(***************************************************************************)
NextStore ==
    \/ \E p \in Callers : EmitCall(p, INFO)
    \/ \E p \in Callers : emit(p, {0})
    \/ \E p \in Callers : Return(p)

SpecStore == InitStore /\ [][NextStore]_vars

\* The same under fair scheduling: every caller is a thread or process of
\* its own, and a call whose next statement can run eventually runs it.
SpecStoreFair ==
    /\ InitStore
    /\ [][NextStore]_vars
    /\ \A p \in Callers : WF_vars(emit(p, {0}))

(***************************************************************************)
(* The store across process starts: the handler is constructed again,      *)
(* with any max_entries, on the database the earlier runs left.            *)
(***************************************************************************)
NextRestart ==
    \/ \E m \in CapValues, fail \in FailAt : SQLiteHandler(m, fail)
    \/ \E lv \in Levels : EmitCall(Main, lv)
    \/ emit(Main, Times)
    \/ Return(Main)

SpecRestart == Init /\ [][NextRestart]_vars

(***************************************************************************)
(* Processes sharing one database file: each constructs its handler, the   *)
(* constructors' statements interleave with each other and with emit.      *)
(***************************************************************************)
NextInit ==
    \/ \E p \in Callers : Initialize(p)
    \/ \E p \in Callers : EmitCall(p, INFO)
    \/ \E p \in Callers : emit(p, {0})
    \/ \E p \in Callers : Return(p)

SpecInit == Init /\ [][NextInit]_vars

(***************************************************************************)
(* Properties.                                                             *)
(***************************************************************************)
\* The step in which caller p's transaction becomes durable.
Commits(p) == stored'[p] /\ ~stored[p]

\* The records of rs with the n highest ids.
Newest(rs, n) == {r \in rs : Cardinality({q \in rs : q.id > r.id}) < n}

\* The last n elements of the sequence s.
LastN(s, n) == SubSeq(s, Len(s) - n + 1, Len(s))

\* C1: (SpecStore) with max_entries >= 1 on a store that starts empty, the
\* logs table never holds more than max_entries committed rows, whatever
\* the calls of emit and however they end.
C1_CapacityInvariant ==
    max_entries >= 1 => CountRows(rows) <= max_entries

\* A call has returned after committing a record that made the table
\* overflow: older records were evicted and the table is exactly full.
C1_Witness ==
    /\ max_entries >= 1
    /\ Len(appended) > max_entries
    /\ CountRows(rows) = max_entries
    /\ \E p \in Callers : pc[p] = "done" /\ stored[p]

\* C2: (SpecRestart) when the commit of an emit call deletes records, each
\* deleted record has an id below the id of every record that survives,
\* whatever the timestamps and levels, and with max_entries >= 1 the record
\* the call inserted survives.
C2_FifoEviction ==
    [][\A p \in Callers :
          (Commits(p) /\ txRows \ rows' # {}) =>
              /\ \A d \in txRows \ rows', s \in rows' : d.id < s.id
              /\ max_entries >= 1 =>
                     \E r \in rows' : /\ r.id = rowid[p]
                                      /\ r.message = rec[p].message]_vars

\* The eviction branch of a call has just committed, and two survivors
\* carry timestamps in the opposite order of their ids.
C2_Witness ==
    /\ max_entries >= 1
    /\ \E p \in Callers : /\ pc[p] = "commit" /\ stored[p]
                          /\ count[p] > max_entries
                          /\ \E r \in rows : r.id = rowid[p]
    /\ \E r, q \in rows : r.id < q.id /\ r.timestamp > q.timestamp

\* C3: (SpecRestart) when the table holds N > max_entries committed rows and
\* an emit call commits, that call deletes exactly N + 1 - max_entries rows,
\* the survivors are exactly the max_entries highest ids, the new record is
\* among them and every deleted id is below every surviving id.
C3_CatchUp ==
    [][\A p \in Callers :
          (Commits(p) /\ CountRows(rows) > max_entries) =>
              /\ Cardinality(txRows \ rows')
                     = CountRows(rows) + 1 - max_entries
              /\ rows' = Newest(txRows, max_entries)
              /\ \E r \in rows' : r.id = rowid[p]
              /\ \A d \in txRows \ rows', s \in rows' : d.id < s.id]_vars

\* C3 for the caps the specification allows: the same statement holds
\* whenever max_entries >= 1.
C3_CatchUpPositiveCap ==
    [][\A p \in Callers :
          (Commits(p) /\ max_entries >= 1 /\ CountRows(rows) > max_entries) =>
              /\ Cardinality(txRows \ rows')
                     = CountRows(rows) + 1 - max_entries
              /\ rows' = Newest(txRows, max_entries)
              /\ \E r \in rows' : r.id = rowid[p]
              /\ \A d \in txRows \ rows', s \in rows' : d.id < s.id]_vars

\* A restart lowered max_entries below the number of stored rows and the
\* next call evicted more than one row at once.
C3_CatchUpWitness ==
    /\ max_entries >= 1
    /\ nsetups >= 2
    /\ \E p \in Callers : /\ pc[p] = "commit" /\ stored[p]
                          /\ count[p] > max_entries + 1
                          /\ CountRows(rows) = max_entries

\* C4: (SpecRestart) the id of a record that an emit call commits is above
\* every id committed before it, whether those records are still stored or
\* were evicted, also when eviction emptied the table and also after the
\* handler was constructed again on the existing table.
C4_MonotonicIds ==
    [][\A p \in Callers :
          Commits(p) => /\ rowid[p] > issued
                        /\ \A r \in rows : r.id < rowid[p]]_vars

\* After a restart on the existing table, a call committed a record on a
\* table that eviction left empty, and its id did not start again at 1.
C4_Witness ==
    /\ nsetups >= 2
    /\ rows = {}
    /\ \E p \in Callers : pc[p] = "done" /\ stored[p] /\ rowid[p] >= 2

\* C5: (SpecStore) no call of emit ends with an exception that reaches its
\* caller, whichever statement of emit the storage failure hits.
C5_EmitNeverRaises ==
    \A p \in Callers : ~raised[p]

\* C6: (SpecStore) with max_entries >= 1, once every call of the concurrent
\* callers is over, the table holds min(number of calls, max_entries) rows
\* and no call ended with an exception.
C6_ConcurrentWriters ==
    (max_entries >= 1 /\ \A p \in Callers : pc[p] \in {"idle", "done"}) =>
        /\ CountRows(rows) = Min(ncalls, max_entries)
        /\ \A p \in Callers : ~raised[p]

\* Positions at which a caller is inside SQLiteHandler.emit.
EmitPcs == {"connect", "insert", "count", "evict", "commit", "close"}

\* Every call is over.
Quiescent == \A p \in Callers : pc[p] \in {"idle", "done"}

\* Number of handlers of kind k in the list hs.
NumKind(hs, k) == Cardinality({i \in DOMAIN hs : hs[i].kind = k})

\* Position of message m in the commit order.
Pos(m) == CHOOSE i \in 1 .. Len(appended) : appended[i] = m

C7_QuietState ==
    debug_mode = "False" =>
        /\ ~handler
        /\ NumKind(handlers, "sqlite") = 0
        /\ \A p \in Callers :
              /\ pc[p] \notin EmitPcs
              /\ got[p].store = 0
              /\ pc[p] = "done" =>
                     got[p].console = IF rec[p].level >= INFO THEN 1 ELSE 0

\* C7: (Spec) after setup_logging(False) no SQLite handler exists or is
\* attached, no caller enters emit, a record at INFO or above reaches the
\* console once and the store never, a DEBUG record reaches no handler, and
\* neither the setup call nor any later step changes the table, its id
\* sequence or the schema.
C7_QuietMode ==
    /\ []C7_QuietState
    /\ [][debug_mode' = "False" => UNCHANGED <<rows, seq, schema>>]_vars

\* In quiet mode, on a database that an earlier verbose run filled, a
\* WARNING record has reached the console and not the store.
C7_Witness ==
    /\ debug_mode = "False"
    /\ rows # {}
    /\ \E p \in Callers : /\ pc[p] = "done"
                          /\ rec[p].level = WARNING
                          /\ got[p] = [console |-> 1, store |-> 0]

\* C8 as stated: (Spec) after setup_logging(True) every record, DEBUG
\* included, is handed once to the console and once to the store, and when
\* no storage failure has happened the table holds min(k, max_entries) rows
\* after k such records.
C8_VerboseRouting ==
    /\ \A p \in Callers :
          (debug_mode = "True" /\ pc[p] = "done") =>
              got[p] = [console |-> 1, store |-> 1]
    /\ (nfaults = 0 /\ Quiescent) =>
          CountRows(rows) = Min(nverbose, max_entries)

\* C8 amended: (Spec) the same, after a setup_logging(True) that returned
\* without a schema error.
C8_VerboseRoutingReturned ==
    /\ \A p \in Callers :
          (debug_mode = "True" /\ ~setupRaised /\ pc[p] = "done") =>
              got[p] = [console |-> 1, store |-> 1]
    /\ (nfaults = 0 /\ Quiescent) =>
          CountRows(rows) = Min(nverbose, max_entries)

\* In verbose mode without failures, a DEBUG record has reached both
\* handlers and the table, already full, stayed at max_entries rows.
C8_Witness ==
    /\ debug_mode = "True" /\ ~setupRaised /\ nfaults = 0
    /\ nverbose > max_entries
    /\ CountRows(rows) = max_entries
    /\ \E p \in Callers : /\ pc[p] = "done"
                          /\ rec[p].level = DEBUG
                          /\ got[p] = [console |-> 1, store |-> 1]

\* C9 as stated: (Spec) after any sequence of setup_logging calls exactly
\* one console handler is attached, and exactly one SQLite handler if and
\* only if the flag of the last call was True; no record reaches a kind of
\* handler twice.
C9_IdempotentReset ==
    debug_mode # "unset" =>
        /\ NumKind(handlers, "console") = 1
        /\ NumKind(handlers, "sqlite") = IF debug_mode = "True" THEN 1 ELSE 0
        /\ \A p \in Callers : got[p].console <= 1 /\ got[p].store <= 1

\* C9 amended: (Spec) ... and exactly one SQLite handler if and only if the
\* flag of the last call was True and that call's handler construction did
\* not fail.
C9_IdempotentResetReturned ==
    debug_mode # "unset" =>
        /\ NumKind(handlers, "console") = 1
        /\ NumKind(handlers, "sqlite")
               = IF debug_mode = "True" /\ ~setupRaised THEN 1 ELSE 0
        /\ \A p \in Callers : got[p].console <= 1 /\ got[p].store <= 1

\* After a second setup_logging call, this one verbose, a record has
\* reached each of the two handlers once.
C9_Witness ==
    /\ nsetups >= 2
    /\ debug_mode = "True" /\ ~setupRaised
    /\ Len(handlers) = 2
    /\ \E p \in Callers : /\ pc[p] = "done"
                          /\ got[p] = [console |-> 1, store |-> 1]

\* C10: (SpecStore) with max_entries = m >= 1 on a store that starts empty,
\* after k committed appends the table holds exactly the last min(k, m) of
\* them, and their ids order them as they were appended, so that reading by
\* descending id yields the latest first.
C10_RecentSuffix ==
    max_entries >= 1 =>
        LET n == Min(Len(appended), max_entries)
            kept == LastN(appended, n)
        IN  /\ CountRows(rows) = n
            /\ {r.message : r \in rows} = {kept[i] : i \in 1 .. n}
            /\ \A r, q \in rows :
                  r.id < q.id <=> Pos(r.message) < Pos(q.message)

\* More records were appended than the table keeps, at least two are kept,
\* and the first appended record is gone.
C10_Witness ==
    /\ max_entries >= 2
    /\ Len(appended) > max_entries
    /\ Quiescent
    /\ \A r \in rows : r.message # appended[1]

\* Positions inside create_table.
CtPcs == {"ct_table", "ct_index", "ct_commit"}

\* Process p takes a step of its constructor.
CtStep(p) == pc[p] \in CtPcs /\ pc'[p] # pc[p]

\* C11: running create_table again on the same file, or from two
\* constructors whose statements interleave, raises nothing unless the
\* storage itself failed, leaves the records and the sequence counter as
\* they were, and ends with exactly the table and its index.
C11_IdempotentSchema ==
    /\ [](handler => schema = {"logs", "idx_logs_id"})
    /\ [][\A p \in Callers : CtStep(p) =>
            /\ rows' = rows /\ seq' = seq
            /\ schema \subseteq schema'
            /\ raised'[p] => nfaults' > nfaults
            /\ pc[p] = "ct_commit" => schema' = {"logs", "idx_logs_id"}]_vars

\* A second constructor has returned on a file that holds records.
C11_Witness ==
    \E p \in Callers :
        /\ pc[p] = "done" /\ rec[p] = NoRec /\ ~raised[p]
        /\ nsetups = 2 /\ rows # {} /\ nfaults = 0

\* Two constructors have both run both statements before either returned.
C11_WitnessInterleaved ==
    \A p \in Callers : pc[p] = "ct_commit"

\* C12: a handler never operates with a non-positive max_entries: the
\* constructor rejects such a value, so a constructed handler has a cap of
\* at least 1.
C12_CapValidated == handler => max_entries >= 1

\* Caller p has an open write transaction: its INSERT ran and the
\* transaction is neither committed nor rolled back.
InTransaction(p) ==
    \/ pc[p] \in {"count", "evict"}
    \/ pc[p] \in {"commit", "close"} /\ lock = p

\* C13: on a store that starts within its cap (so max_entries >= 0), in
\* every state of every interleaving of concurrent emit calls the row count
\* a reader sees is at most max_entries + 1, the committed table never holds
\* more than max_entries rows, and no two calls are at the same time between
\* their INSERT and their commit (so no two of them count before either
\* evicted).
C13_NoOverCapacity ==
    max_entries >= 0 =>
        /\ CountRows(rows) <= max_entries + 1
        /\ CountRows(rows) <= max_entries
        /\ Cardinality({p \in Callers : InTransaction(p)}) <= 1

\* One call has counted max_entries + 1 rows and is about to evict while
\* another waits to insert, on a table that is full.
C13_Witness ==
    \E p, q \in Callers :
        /\ p # q /\ max_entries >= 1
        /\ pc[p] = "evict" /\ count[p] = max_entries + 1
        /\ pc[q] = "insert"
        /\ CountRows(rows) = max_entries

\* C14: the committed records and the sequence counter change only in the
\* step that commits a call's transaction, and that step commits the INSERT
\* together with the outcome of its count and eviction; so a call that
\* fails after its INSERT (at the count, the DELETE or the commit) leaves
\* both as they were, and its record is not in the table when it ends.
C14_FailedAppendRollsBack ==
    /\ [](\A p \in Callers :
            pc[p] = "done" /\ ~stored[p] =>
                \A r \in rows : r.message # rec[p].message)
    /\ [][/\ (rows' # rows \/ seq' # seq) => \E p \in Callers : Commits(p)
          /\ \A p \in Callers :
                Commits(p) =>
                    /\ count[p] = CountRows(txRows)
                    /\ seq' = rowid[p]
                    /\ rows' = IF count[p] > max_entries
                               THEN DeleteOldest(txRows,
                                                 count[p] - max_entries)
                               ELSE txRows]_vars

\* A call whose DELETE failed has ended: its INSERT had run, records that
\* were committed before it are still there.
C14_Witness ==
    \E p \in Callers :
        /\ pc[p] = "done" /\ ~stored[p] /\ printed[p] = 1
        /\ rowid[p] > 0 /\ count[p] > max_entries
        /\ rows # {} /\ seq < rowid[p]

C16_EveryAppendTerminates ==
    \A p \in Callers :
        pc[p] \in EmitPcs ~>
            (pc[p] = "done" /\ (stored[p] \/ printed[p] >= 1))

\* A call waits for the write lock another call holds, and no storage
\* failure is left that could end the wait.
C16_Witness ==
    \E p, q \in Callers :
        /\ p # q
        /\ pc[p] = "insert" /\ lock = q
        /\ nfaults = MaxFaults

\* C17: in verbose mode every record whose logging call is over was written
\* by the console handler exactly once, whether the store's emit committed
\* it, failed or raised, and whatever happened to the records before it.
C17_ConsoleIndependent ==
    debug_mode = "True" =>
        \A p \in Callers : pc[p] = "done" => got[p].console = 1

\* A second record's emit raised, after an earlier storage failure: the
\* console had written that record.
C17_Witness ==
    /\ debug_mode = "True" /\ ~setupRaised
    /\ pc[Main] = "done" /\ raised[Main] /\ got[Main] = [console |-> 1, store |-> 1]
    /\ ncalls >= 2 /\ nfaults = 2 /\ nsetups = 1

\* C18: on a store that started empty, whatever calls committed or failed,
\* every committed record's id is one more than the id committed before it
\* (a call that failed after its INSERT used up no id), and the table holds
\* the contiguous range of ids that ends at the highest id ever committed.
C18_NoGaps ==
    /\ [](/\ seq = issued
          /\ Ids(rows) = (issued - CountRows(rows) + 1) .. issued)
    /\ [][\A p \in Callers : Commits(p) => rowid[p] = issued + 1]_vars

\* A call drew id 2 and failed; another call then committed its record
\* under id 2, next to id 1.
C18_Witness ==
    \E p, q \in Callers :
        /\ pc[p] = "done" /\ ~stored[p] /\ rowid[p] = 2
        /\ stored[q] /\ rowid[q] = 2
        /\ Ids(rows) = {1, 2}

\* C19: no step of emit or of create_table changes a field of a record that
\* stays in the table; a record that comes into the table carries an id
\* above every id committed before (nothing is inserted again); and records
\* leave the table only in the commit of an emit call, the ones with the
\* lowest ids first.
C19_RetainedImmutable ==
    [][/\ \A r \in rows, t \in rows' : r.id = t.id => r = t
       /\ \A t \in rows' \ rows : t.id > issued
       /\ rows \ rows' # {} =>
            /\ \E p \in Callers : Commits(p)
            /\ \A r \in rows \ rows', t \in rows \cap rows' : r.id < t.id]_vars

\* The oldest record was evicted, and a constructor has run create_table
\* again on the two that stayed.
C19_Witness ==
    \E p \in Callers :
        /\ pc[p] = "done" /\ rec[p] = NoRec /\ ~raised[p]
        /\ nsetups = 2
        /\ Ids(rows) = {2, 3}

\* C20: a setup_logging(True) call whose create_table fails raises to its
\* caller; after it no SQLite handler exists or is attached, the logger has
\* exactly one console handler, at DEBUG, and every record logged reaches
\* the console once and the store never.
C20_SchemaFailureSurfaced ==
    /\ [](setupRaised =>
            /\ debug_mode = "True" /\ ~handler
            /\ handlers = <<Console(DEBUG)>>
            /\ NumKind(handlers, "sqlite") = 0
            /\ \A p \in Callers :
                  /\ pc[p] \notin EmitPcs
                  /\ pc[p] = "done" => got[p] = [console |-> 1, store |-> 0])
    /\ [][nsetups' > nsetups /\ nfaults' > nfaults => setupRaised']_vars

\* setup_logging(True) raised at create_table, and a record logged after
\* it reached the console.
C20_Witness ==
    /\ setupRaised /\ nfaults = 1 /\ schema = {}
    /\ pc[Main] = "done" /\ got[Main] = [console |-> 1, store |-> 0]
    /\ rec[Main].level = DEBUG
=============================================================================
